---------------------------- MODULE Spec2Model ----------------------------
(***************************************************************************)
(* The Sankey graph pipeline of CountryDisciplineGenderSankey (Homework3,  *)
(* with the Homework2 variant), and the focus selection that the           *)
(* CountryBarChart click handler toggles.                                  *)
(*                                                                         *)
(* A JavaScript string is a sequence of one-character strings, so that     *)
(* trim, split, startsWith, concatenation and the default sort order are   *)
(* computed character by character as the code computes them.              *)
(***************************************************************************)
EXTENDS Integers, Sequences, FiniteSets, TLC

\* ------------------------------------------------------------------ bounds
\* Longest record sequence handed to the chart.
MaxRows == 2
\* Largest value of the topCountries / topDisciplines props.
MaxTop == 2

\* ------------------------------------------------------- JavaScript values
\* null and undefined: tokens that are no character string (every character
\* of a string is a one-character string).
null == <<"null">>
undefined == <<"undefined">>

\* UTF-16 code unit of each character: the order of Array.prototype.sort().
CharCode ==
    ("\t" :> 9) @@ (" " :> 32) @@ ("'" :> 39) @@ ("," :> 44) @@ ("/" :> 47) @@ (":" :> 58) @@
    (";" :> 59) @@ ("A" :> 65) @@ ("B" :> 66) @@ ("C" :> 67) @@ ("D" :> 68) @@ ("E" :> 69) @@
    ("F" :> 70) @@ ("G" :> 71) @@ ("H" :> 72) @@ ("I" :> 73) @@ ("J" :> 74) @@ ("K" :> 75) @@
    ("L" :> 76) @@ ("M" :> 77) @@ ("N" :> 78) @@ ("O" :> 79) @@ ("P" :> 80) @@ ("Q" :> 81) @@
    ("R" :> 82) @@ ("S" :> 83) @@ ("T" :> 84) @@ ("U" :> 85) @@ ("V" :> 86) @@ ("W" :> 87) @@
    ("X" :> 88) @@ ("Y" :> 89) @@ ("Z" :> 90) @@ ("[" :> 91) @@ ("]" :> 93) @@ ("a" :> 97) @@
    ("b" :> 98) @@ ("c" :> 99) @@ ("d" :> 100) @@ ("e" :> 101) @@ ("f" :> 102) @@ ("g" :> 103) @@
    ("h" :> 104) @@ ("i" :> 105) @@ ("j" :> 106) @@ ("k" :> 107) @@ ("l" :> 108) @@ ("m" :> 109) @@
    ("n" :> 110) @@ ("o" :> 111) @@ ("p" :> 112) @@ ("q" :> 113) @@ ("r" :> 114) @@ ("s" :> 115) @@
    ("t" :> 116) @@ ("u" :> 117) @@ ("v" :> 118) @@ ("w" :> 119) @@ ("x" :> 120) @@ ("y" :> 121) @@
    ("z" :> 122) @@ ("|" :> 124)

\* Characters String.prototype.trim() removes.
WhiteSpace == {" ", "\t"}

\* s.trimStart()
RECURSIVE trimStart(_)
trimStart(s) ==
    IF s # <<>> /\ Head(s) \in WhiteSpace THEN trimStart(Tail(s)) ELSE s

\* s.trimEnd()
RECURSIVE trimEnd(_)
trimEnd(s) ==
    IF s # <<>> /\ s[Len(s)] \in WhiteSpace
    THEN trimEnd(SubSeq(s, 1, Len(s) - 1)) ELSE s

\* s.trim()
trim(s) == trimEnd(trimStart(s))

\* s.startsWith(p)
startsWith(s, p) == Len(s) >= Len(p) /\ SubSeq(s, 1, Len(p)) = p

\* The order a.sort() puts two distinct strings in: by UTF-16 code units, a
\* proper prefix first.
RECURSIVE StrLess(_, _)
StrLess(a, b) ==
    IF b = <<>> THEN FALSE
    ELSE IF a = <<>> THEN TRUE
    ELSE IF Head(a) # Head(b) THEN CharCode[Head(a)] < CharCode[Head(b)]
    ELSE StrLess(Tail(a), Tail(b))

\* s.split(sep) for a non-empty separator string: cut at each leftmost,
\* non-overlapping occurrence; empty pieces are kept.
RECURSIVE splitString(_, _)
splitString(s, sep) ==
    LET n == Len(sep)
        at == {i \in 1..(Len(s) - n + 1) : SubSeq(s, i, i + n - 1) = sep}
    IN  IF at = {} THEN <<s>>
        ELSE LET i == CHOOSE j \in at : \A k \in at : j <= k
             IN  <<SubSeq(s, 1, i - 1)>> \o splitString(SubSeq(s, i + n, Len(s)), sep)

\* s.split(/[...]/g) for a character class: cut at every character of the
\* class; empty pieces are kept.
RECURSIVE splitClass(_, _)
splitClass(s, class) ==
    LET at == {i \in 1..Len(s) : s[i] \in class}
    IN  IF at = {} THEN <<s>>
        ELSE LET i == CHOOSE j \in at : \A k \in at : j <= k
             IN  <<SubSeq(s, 1, i - 1)>> \o splitClass(SubSeq(s, i + 1, Len(s)), class)

\* slice taking one element too many
slice_offByOne(a, end) == SubSeq(a, 1, IF end + 1 < Len(a) THEN end + 1 ELSE Len(a))

\* slice written as a.slice(-end), the last `end` elements: the whole array
\* when end is 0
slice_fromEnd(a, end) ==
    IF end = 0 \/ end >= Len(a) THEN a ELSE SubSeq(a, Len(a) - end + 1, Len(a))

\* a.slice(0, end) for an integer end >= 0
slice(a, end) == SubSeq(a, 1, IF end < Len(a) THEN end ELSE Len(a))

\* Array.from(new Set(a)): the distinct elements in first-seen order.
RECURSIVE unique(_)
unique(a) ==
    IF a = <<>> THEN <<>>
    ELSE LET front == SubSeq(a, 1, Len(a) - 1)
             last == a[Len(a)]
         IN  IF \E i \in 1..Len(front) : front[i] = last
             THEN unique(front) ELSE Append(unique(front), last)

\* Array.from(d3.rollup(rows, v => v.length, key), ([k, v]) => ({k, v})):
\* one entry per distinct key, in first-seen order (a Map keeps insertion
\* order), with the number of rows carrying the key.
rollup(keys) ==
    LET seen == unique(keys)
    IN  [j \in 1..Len(seen) |->
            [k |-> seen[j], v |-> Cardinality({i \in 1..Len(keys) : keys[i] = seen[j]})]]

\* a sort step that puts x before the entries of equal count as well
RECURSIVE insertDescending_tiesReversed(_, _)
insertDescending_tiesReversed(x, s) ==
    IF s = <<>> THEN <<x>>
    ELSE IF x.v >= Head(s).v THEN <<x>> \o s
    ELSE <<Head(s)>> \o insertDescending_tiesReversed(x, Tail(s))

\* One step of the stable sort by d3.descending(a.v, b.v): x goes before the
\* first entry with a strictly smaller count.
RECURSIVE insertDescending(_, _)
insertDescending(x, s) ==
    IF s = <<>> THEN <<x>>
    ELSE IF x.v > Head(s).v THEN <<x>> \o s
    ELSE <<Head(s)>> \o insertDescending(x, Tail(s))

\* entries.sort((a, b) => d3.descending(a.v, b.v)); Array.prototype.sort is
\* stable, so equal counts keep their first-seen order.
RECURSIVE sortDescending(_)
sortDescending(s) ==
    IF s = <<>> THEN <<>>
    ELSE insertDescending(s[Len(s)], sortDescending(SubSeq(s, 1, Len(s) - 1)))

\* One step of names.sort(): x goes before the first greater name.
RECURSIVE insertSorted(_, _)
insertSorted(x, s) ==
    IF s = <<>> THEN <<x>>
    ELSE IF StrLess(x, Head(s)) THEN <<x>> \o s
    ELSE <<Head(s)>> \o insertSorted(x, Tail(s))

\* sort left out: the names stay in first-seen order
sort_omitted(s) == s

\* names.sort() with the default comparator
RECURSIVE sort(_)
sort(s) ==
    IF s = <<>> THEN <<>>
    ELSE insertSorted(s[Len(s)], sort(SubSeq(s, 1, Len(s) - 1)))

\* ------------------------------------------------------- string constants
UnknownCountry == <<"U", "n", "k", "n", "o", "w", "n", " ", "C", "o", "u", "n", "t", "r", "y">>
UnknownDiscipline == <<"U", "n", "k", "n", "o", "w", "n", " ", "D", "i", "s", "c", "i", "p", "l", "i", "n", "e">>
Unknown == <<"U", "n", "k", "n", "o", "w", "n">>
CountryPrefix == <<"C", ":", " ">>
DisciplinePrefix == <<"D", ":", " ">>
GenderPrefix == <<"G", ":", " ">>
KeySeparator == <<"|", "|", "|">>
DisciplineSeparators == {",", ";", "|", "/"}

\* ---------------------------------------------------------- the pipeline
\* clean without the fallback substitution
clean_noFallback(v, fallback) == trim(IF v = null \/ v = undefined THEN <<>> ELSE v)

\* clean(v, fallback)
clean(v, fallback) ==
    LET s == trim(IF v = null \/ v = undefined THEN <<>> ELSE v)
    IN  IF Len(s) # 0 THEN s ELSE fallback

\* splitDisciplines(s)
splitDisciplines(s) ==
    LET pieces == splitClass(s, DisciplineSeparators)
        parts == SelectSeq([i \in 1..Len(pieces) |-> trim(pieces[i])],
                           LAMBDA p : p # <<>>)
    IN  IF Len(parts) # 0 THEN parts ELSE <<s>>

\* a test that takes the empty string for a selected country
Truthy_emptyStringSet(sel) == sel # null /\ sel # undefined

\* Whether a selectedCountry prop counts as set: `selectedCountry ? .. : ..`
Truthy(sel) == sel # null /\ sel # undefined /\ sel # <<>>

\* const cleaned = data.map(...)
cleaned(d) ==
    [i \in 1..Len(d) |->
        [country |-> clean(d[i].country, UnknownCountry),
         disciplineRaw |-> clean(d[i].disciplines, UnknownDiscipline),
         gender |-> clean(d[i].gender, Unknown)]]

\* base without the focus filter
base_noFocusFilter(d, sel) == cleaned(d)

\* const base = selectedCountry ? cleaned.filter(...) : cleaned
base(d, sel) ==
    IF Truthy(sel)
    THEN SelectSeq(cleaned(d), LAMBDA r : r.country = sel)
    ELSE cleaned(d)

\* The retained keys of a top-N stage: rollup, sort by descending count,
\* slice(0, n), map to the key, new Set(...).
topSet(keys, n) ==
    LET top == slice(sortDescending(rollup(keys)), n)
    IN  {top[i].k : i \in 1..Len(top)}

\* topCountrySet over the rows of the country stage
topCountrySet(rows, tc) == topSet([i \in 1..Len(rows) |-> rows[i].country], tc)

\* filteredCountries: the country top-N runs only when no country is selected
filteredCountries(d, tc, sel) ==
    IF ~Truthy(sel)
    THEN SelectSeq(base(d, sel),
                   LAMBDA r : r.country \in topCountrySet(base(d, sel), tc))
    ELSE base(d, sel)

\* The rows one cleaned record explodes to.
explodeOne(r) ==
    LET discs == splitDisciplines(r.disciplineRaw)
    IN  [i \in 1..Len(discs) |->
            [country |-> r.country, discipline |-> discs[i], gender |-> r.gender]]

\* exploded: one row per discipline of each record, in order
RECURSIVE explodeAll(_)
explodeAll(rows) ==
    IF rows = <<>> THEN <<>>
    ELSE explodeOne(Head(rows)) \o explodeAll(Tail(rows))

\* exploded over every cleaned record, the country stage ignored
exploded_unfiltered(d, tc, sel) == explodeAll(cleaned(d))

exploded(d, tc, sel) == explodeAll(filteredCountries(d, tc, sel))

\* topDiscSet over the exploded rows
topDiscSet(rows, td) == topSet([i \in 1..Len(rows) |-> rows[i].discipline], td)

\* finalRows
finalRows(d, tc, td, sel) ==
    LET ex == exploded(d, tc, sel)
        top == topDiscSet(ex, td)
    IN  SelectSeq(ex, LAMBDA r : r.discipline \in top)

\* The labels built from one final row.
countryLabel(r) == CountryPrefix \o r.country
disciplineLabel(r) == DisciplinePrefix \o r.discipline
genderLabel(r) == GenderPrefix \o r.gender

\* const key = `${source}|||${target}`
linkKey(source, target) == source \o KeySeparator \o target

\* addLink that sets the value instead of adding to it
addLink_overwrites(map, source, target, value) ==
    LET key == linkKey(source, target)
    IN  IF \E i \in 1..Len(map) : map[i].key = key
        THEN [i \in 1..Len(map) |->
                 IF map[i].key = key THEN [key |-> key, value |-> value] ELSE map[i]]
        ELSE Append(map, [key |-> key, value |-> value])

\* addLink(source, target, value) on linksMap, a sequence of [key, value]
\* entries in insertion order
addLink(map, source, target, value) ==
    LET key == linkKey(source, target)
    IN  IF \E i \in 1..Len(map) : map[i].key = key
        THEN [i \in 1..Len(map) |->
                 IF map[i].key = key
                 THEN [key |-> key, value |-> map[i].value + value]
                 ELSE map[i]]
        ELSE Append(map, [key |-> key, value |-> value])

\* linksMap after the loop over finalRows
RECURSIVE linksMap(_)
linksMap(rows) ==
    IF rows = <<>> THEN <<>>
    ELSE LET r == rows[Len(rows)]
             before == linksMap(SubSeq(rows, 1, Len(rows) - 1))
         IN  addLink(addLink(before, countryLabel(r), disciplineLabel(r), 1),
                     disciplineLabel(r), genderLabel(r), 1)

\* const [source, target] = key.split("|||")
decodeKey(key) ==
    LET parts == splitString(key, KeySeparator)
    IN  [source |-> parts[1],
         target |-> IF Len(parts) >= 2 THEN parts[2] ELSE undefined]

\* linksNamed
linksNamed(rows) ==
    LET map == linksMap(rows)
    IN  [i \in 1..Len(map) |->
            [source |-> decodeKey(map[i].key).source,
             target |-> decodeKey(map[i].key).target,
             value |-> map[i].value]]

\* nodeNames
nodeNames(named) ==
    unique([i \in 1..(2 * Len(named)) |->
               IF i % 2 = 1 THEN named[(i + 1) \div 2].source
               ELSE named[i \div 2].target])

\* names.filter(n => n.startsWith(prefix)).sort()
tier(names, prefix) == sort(SelectSeq(names, LAMBDA n : startsWith(n, prefix)))

\* ordered with the discipline tier spread first
ordered_tiersSwapped(names) ==
    tier(names, DisciplinePrefix) \o tier(names, CountryPrefix) \o tier(names, GenderPrefix)

\* ordered = [...countries, ...disciplines, ...genders]
ordered(names) ==
    tier(names, CountryPrefix) \o tier(names, DisciplinePrefix) \o tier(names, GenderPrefix)

\* What idx.get(name)! evaluates to for a name that is no key of idx: the
\* non-null assertion is erased at compile time, the value is undefined.
NoIndex == -1

\* idx.get(name): the zero-based position of name in nodes
idxGet(nodes, name) ==
    IF \E i \in 1..Len(nodes) : nodes[i].name = name
    THEN (CHOOSE i \in 1..Len(nodes) :
             nodes[i].name = name /\ \A j \in 1..Len(nodes) : nodes[j].name = name => j <= i) - 1
    ELSE NoIndex

\* { nodes, links } built from linksNamed
resolve(named) ==
    LET names == ordered(nodeNames(named))
        nodes == [i \in 1..Len(names) |-> [name |-> names[i]]]
    IN  [nodes |-> nodes,
         links |-> [i \in 1..Len(named) |->
                       [source |-> idxGet(nodes, named[i].source),
                        target |-> idxGet(nodes, named[i].target),
                        value |-> named[i].value]]]

\* The value of the graph useMemo for the given props.
graphOf(d, tc, td, sel) == resolve(linksNamed(finalRows(d, tc, td, sel)))

\* ------------------------------------------------ the Homework2 variant
\* Homework2's chart has no selectedCountry prop; clean, splitDisciplines,
\* the top-N stages, addLink, the key decoding, the node ordering and the
\* index resolution are the same code as in Homework3.
\* filteredCountries of Homework2: the country top-N always runs
hw2_filteredCountries(d, tc) ==
    SelectSeq(cleaned(d), LAMBDA r : r.country \in topCountrySet(cleaned(d), tc))

\* finalRows of Homework2
hw2_finalRows(d, tc, td) ==
    LET ex == explodeAll(hw2_filteredCountries(d, tc))
        top == topDiscSet(ex, td)
    IN  SelectSeq(ex, LAMBDA r : r.discipline \in top)

\* The value of Homework2's graph useMemo.
hw2_graphOf(d, tc, td) == resolve(linksNamed(hw2_finalRows(d, tc, td)))

\* ------------------------------------------- the scatter chart's parser
\* Array.from(s.matchAll(/'([^']+)'/g)).map(m => m[1].trim()): a match opens
\* at the leftmost quote that is followed by a character other than a quote
\* and, later, by a closing quote; the search goes on after the closing quote.
RECURSIVE quotedItems(_)
quotedItems(s) ==
    LET opens == {i \in 1..(Len(s) - 2) :
                     /\ s[i] = "'" /\ s[i + 1] # "'"
                     /\ \E j \in (i + 2)..Len(s) : s[j] = "'"}
    IN  IF opens = {} THEN <<>>
        ELSE LET i == CHOOSE a \in opens : \A b \in opens : a <= b
                 closes == {j \in (i + 2)..Len(s) : s[j] = "'"}
                 j == CHOOSE a \in closes : \A b \in closes : a <= b
             IN  <<trim(SubSeq(s, i + 1, j - 1))>> \o quotedItems(SubSeq(s, j + 1, Len(s)))

\* items.join(sep)
RECURSIVE join(_, _)
join(items, sep) ==
    IF items = <<>> THEN <<>>
    ELSE IF Len(items) = 1 THEN items[1]
    ELSE items[1] \o sep \o join(Tail(items), sep)

\* s.replace(/^\[|\]$/g, ""): a leading "[" and a trailing "]" are removed
stripBrackets(s) ==
    LET noOpen == IF s # <<>> /\ Head(s) = "[" THEN Tail(s) ELSE s
    IN  IF noOpen # <<>> /\ noOpen[Len(noOpen)] = "]"
        THEN SubSeq(noOpen, 1, Len(noOpen) - 1) ELSE noOpen

\* s.replace(/"/g, "")
removeDoubleQuotes(s) == SelectSeq(s, LAMBDA c : c # "\"")

\* parseDisciplinesField without the quoted-list path
parseDisciplinesField_noQuotedPath(v) ==
    LET s == trim(IF v = null \/ v = undefined THEN <<>> ELSE v)
    IN  IF s = <<>> THEN Unknown
        ELSE trim(removeDoubleQuotes(stripBrackets(s)))

\* parseDisciplinesField(v)
parseDisciplinesField(v) ==
    LET s == trim(IF v = null \/ v = undefined THEN <<>> ELSE v)
        matches == quotedItems(s)
    IN  IF s = <<>> THEN Unknown
        ELSE IF Len(matches) # 0 THEN join(matches, <<",", " ">>)
        ELSE trim(removeDoubleQuotes(stripBrackets(s)))

\* ------------------------------------------------------ the bar chart
\* CountryBarChart's default topN prop, which App also passes.
barTopN == 15

\* CountryBarChart rows: the bars, one per trimmed non-blank country, by
\* descending count, at most topN of them.
barRows(d, topN) ==
    LET kept == SelectSeq(d, LAMBDA r : r.country # undefined /\ r.country # null
                                        /\ r.country # <<>> /\ Len(trim(r.country)) > 0)
    IN  slice(sortDescending(rollup([i \in 1..Len(kept) |-> trim(kept[i].country)])), topN)

\* a click handler that selects and never clears
toggle_neverClears(sel, country) == country

\* The bar click handler's argument to onSelectCountry.
toggle(sel, country) == IF sel = country THEN null ELSE country

\* ------------------------------------------------------------ the inputs
A == <<"A">>
B == <<"B">>
Z == <<"Z">>
Pipe == <<"|">>
x == <<"x">>
y == <<"y">>
M == <<"M">>
F == <<"F">>

\* Raw records as d3.csv could hand them over: a field may be missing,
\* blank, padded, multi-valued, or hold separator characters.
RawRows ==
    { [country |-> A, disciplines |-> x, gender |-> M],
      [country |-> B, disciplines |-> <<"x", ",", " ", "y">>, gender |-> F],
      [country |-> undefined, disciplines |-> y, gender |-> M],
      [country |-> <<" ">>, disciplines |-> undefined, gender |-> undefined],
      [country |-> Pipe, disciplines |-> x, gender |-> F],
      [country |-> <<" ", "A">>, disciplines |-> Pipe, gender |-> M],
      [country |-> B, disciplines |-> y, gender |-> <<"M", "|", "|", "|", "F">>] }

\* The record sequences of the worked examples.
FreestyleRelayField == <<"[", "'", "F", "r", "e", "e", "s", "t", "y", "l", "e", "'", ",", " ", "'", "R", "e", "l", "a", "y", "'", "]">>
Freestyle == <<"F", "r", "e", "e", "s", "t", "y", "l", "e">>
Relay == <<"R", "e", "l", "a", "y">>
Judo == <<"J", "u", "d", "o">>
TrampolineVaultField == <<"T", "r", "a", "m", "p", "o", "l", "i", "n", "e", ",", " ", "V", "a", "u", "l", "t">>
Trampoline == <<"T", "r", "a", "m", "p", "o", "l", "i", "n", "e">>
Vault == <<"V", "a", "u", "l", "t">>
USA == <<"U", "S", "A">>
Swimming == <<"S", "w", "i", "m", "m", "i", "n", "g">>
Athletics == <<"A", "t", "h", "l", "e", "t", "i", "c", "s">>
Male == <<"M", "a", "l", "e">>
Female == <<"F", "e", "m", "a", "l", "e">>

ExampleRows ==
    << [country |-> USA, disciplines |-> Swimming, gender |-> Male],
       [country |-> USA, disciplines |-> Swimming, gender |-> Female],
       [country |-> USA, disciplines |-> Athletics, gender |-> Male] >>

ExploderExamples ==
    { <<[country |-> A, disciplines |-> FreestyleRelayField, gender |-> M]>>,
      <<[country |-> A, disciplines |-> Judo, gender |-> M]>>,
      <<[country |-> A, disciplines |-> TrampolineVaultField, gender |-> M]>> }

\* Every record sequence the model feeds the chart.
RECURSIVE SeqsUpTo(_, _)
SeqsUpTo(S, n) ==
    IF n = 0 THEN {<<>>}
    ELSE LET shorter == SeqsUpTo(S, n - 1)
         IN  shorter \cup {Append(s, r) : s \in shorter, r \in S}

DataSets == SeqsUpTo(RawRows, MaxRows) \cup {ExampleRows} \cup ExploderExamples

\* "a": the country "A" in another letter case.
LowerA == <<"a">>

\* The selectedCountry prop the chart is mounted with: unset (null or the
\* empty string) or a country no record carries.
MountFocus == {null, <<>>, Z, LowerA}

EmptyGraph == [nodes |-> <<>>, links |-> <<>>]

\* ------------------------------------------------------- the state machine
VARIABLES
    data,             \* the data prop
    topCountries,     \* the topCountries prop
    topDisciplines,   \* the topDisciplines prop
    selectedCountry,  \* App's selectedCountry state, passed to every chart
    graph,            \* the value of the graph useMemo
    hist              \* history: the last click and the toggle in progress

vars == <<data, topCountries, topDisciplines, selectedCountry, graph, hist>>

\* The chart is mounted and the graph useMemo has run.
Init ==
    /\ data \in DataSets
    /\ topCountries \in 0..MaxTop
    /\ topDisciplines \in 0..MaxTop
    /\ selectedCountry \in MountFocus
    /\ graph = graphOf(data, topCountries, topDisciplines, selectedCountry)
    /\ hist = [clicked |-> null, selBefore |-> null, step |-> 0, graphBefore |-> EmptyGraph]

\* A click on the bar of `country`: the handler replaces selectedCountry, and
\* the re-render recomputes the graph useMemo (selectedCountry is one of its
\* dependencies).
Click(country) ==
    LET sel == toggle(selectedCountry, country)
        step == IF ~Truthy(selectedCountry) THEN 1
                ELSE IF hist.step = 1 /\ hist.clicked = country THEN 2
                ELSE 0
    IN  /\ selectedCountry' = sel
        /\ graph' = graphOf(data, topCountries, topDisciplines, sel)
        /\ hist' = [clicked |-> country,
                    selBefore |-> selectedCountry,
                    step |-> step,
                    graphBefore |-> IF step = 1 THEN graph
                                    ELSE IF step = 2 THEN hist.graphBefore
                                    ELSE EmptyGraph]
        /\ UNCHANGED <<data, topCountries, topDisciplines>>

Next ==
    \E i \in 1..Len(barRows(data, barTopN)) : Click(barRows(data, barTopN)[i].k)

Spec == Init /\ [][Next]_vars

\* ------------------------------------------------------------ the claims
\* The props of the current state, and what the pipeline derives from them.
NoFocus == ~Truthy(selectedCountry)
FinalRows == finalRows(data, topCountries, topDisciplines, selectedCountry)
NodeName(i) == graph.nodes[i + 1].name
CountryTier == SelectSeq(graph.nodes, LAMBDA n : startsWith(n.name, CountryPrefix))
IsBlank(v) == v = undefined \/ v = null \/ trim(v) = <<>>

\* C1: in the returned graph every link's source and target is an integer in
\* 0..len(nodes)-1, and every position of nodes is the source or the target
\* of at least one link.
C1_IndicesValidAndNodesReferenced ==
    /\ \A i \in 1..Len(graph.links) :
          /\ graph.links[i].source \in 0..(Len(graph.nodes) - 1)
          /\ graph.links[i].target \in 0..(Len(graph.nodes) - 1)
    /\ \A p \in 0..(Len(graph.nodes) - 1) :
          \E i \in 1..Len(graph.links) :
             graph.links[i].source = p \/ graph.links[i].target = p

\* C2: the named link list holds each (source label, target label) pair at
\* most once, and each link's weight is the number of final rows whose
\* (country, discipline) labels, or (discipline, gender) labels, are that pair.
C2_LinksUniqueAndCounted ==
    LET named == linksNamed(FinalRows)
        count(s, t) ==
            Cardinality({i \in 1..Len(FinalRows) :
                \/ countryLabel(FinalRows[i]) = s /\ disciplineLabel(FinalRows[i]) = t
                \/ disciplineLabel(FinalRows[i]) = s /\ genderLabel(FinalRows[i]) = t})
    IN  /\ \A i, j \in 1..Len(named) :
              i # j => <<named[i].source, named[i].target>> # <<named[j].source, named[j].target>>
        /\ \A i \in 1..Len(named) :
              named[i].value = count(named[i].source, named[i].target)

\* C3 as stated: with a focus value F set, the nodes hold exactly one
\* country-tier node, the node of F, whatever topCountries, topDisciplines
\* and the records are.
C3_FocusGivesExactlyOneCountryNode ==
    Truthy(selectedCountry) =>
        CountryTier = <<[name |-> CountryPrefix \o selectedCountry]>>

\* C3 as amended: with a focus value F set, every row that reaches the
\* aggregator has country F whatever topCountries is, so "C: F" is the only
\* country label it builds; a link keyed from "C: F" is accumulated and the
\* graph is non-empty exactly when some record's sanitized country is F and
\* topDisciplines >= 1, and otherwise nodes and links are empty.
C3_FocusRestrictsCountryTier ==
    Truthy(selectedCountry) =>
        LET matches == \E i \in 1..Len(data) :
                          clean(data[i].country, UnknownCountry) = selectedCountry
        IN  /\ \A i \in 1..Len(FinalRows) :
                  countryLabel(FinalRows[i]) = CountryPrefix \o selectedCountry
            /\ IF matches /\ topDisciplines >= 1
               THEN /\ \E i \in 1..Len(linksMap(FinalRows)) :
                          startsWith(linksMap(FinalRows)[i].key,
                                     CountryPrefix \o selectedCountry \o KeySeparator)
                    /\ graph.nodes # <<>> /\ graph.links # <<>>
               ELSE graph = EmptyGraph

\* C3 witness: a focus is set by a click, topCountries is 0, and the country
\* tier is the one node of the focus.
C3_Witness ==
    /\ Truthy(selectedCountry) /\ hist.clicked = selectedCountry
    /\ topCountries = 0
    /\ CountryTier = <<[name |-> CountryPrefix \o selectedCountry]>>

\* C4: a click on country c sets the focus to c from no focus, clears it when
\* c is the focused country, replaces it otherwise; after two clicks in a row
\* on the same country from the unfocused state the focus is none and the
\* graph is the graph before the first click.
C4_FocusToggle ==
    /\ hist.clicked # null =>
          /\ ~Truthy(hist.selBefore) => selectedCountry = hist.clicked
          /\ hist.selBefore = hist.clicked => selectedCountry = null
          /\ (Truthy(hist.selBefore) /\ hist.selBefore # hist.clicked) =>
                selectedCountry = hist.clicked
    /\ hist.step = 2 => selectedCountry = null /\ graph = hist.graphBefore

\* C4 witness: the second click on the same country has cleared the focus
\* and the graph, which has nodes, is the one before the first click.
C4_Witness ==
    /\ hist.step = 2 /\ hist.selBefore = hist.clicked
    /\ selectedCountry = null
    /\ graph = hist.graphBefore /\ graph.nodes # <<>>

\* C5 as stated: topCountries = 0 gives empty nodes and links, for every
\* focus value or none.
C5_ZeroCountriesEmptyGraph ==
    topCountries = 0 => graph = EmptyGraph

\* C5 as amended: with no focus set, topCountries = 0 gives empty nodes and
\* links.
C5_ZeroCountriesEmptyGraphNoFocus ==
    (topCountries = 0 /\ NoFocus) => graph = EmptyGraph

\* C5 witness: records are present, categories are retained, no focus is
\* set, and topCountries = 0 has emptied the graph.
C5_Witness ==
    /\ topCountries = 0 /\ NoFocus
    /\ Len(data) > 0 /\ topDisciplines >= 1
    /\ graph = EmptyGraph

\* C6: with no focus set and N >= 1, the countries retained with
\* topCountries = N are a superset of those retained with topCountries = N-1.
C6_TopCountriesMonotonic ==
    (NoFocus /\ topCountries >= 1) =>
        topCountrySet(base(data, selectedCountry), topCountries - 1)
            \subseteq topCountrySet(base(data, selectedCountry), topCountries)

\* C6 witness: no focus, and raising N-1 >= 1 to N adds a country to a
\* non-empty retained set.
C6_Witness ==
    /\ NoFocus /\ topCountries >= 2
    /\ topCountrySet(base(data, selectedCountry), topCountries - 1) # {}
    /\ topCountrySet(base(data, selectedCountry), topCountries - 1)
          # topCountrySet(base(data, selectedCountry), topCountries)

\* The graph has a link of positive weight out of the "Unknown Country" node.
UnknownCountryLinked ==
    \E i \in 1..Len(graph.links) :
        /\ graph.links[i].source # NoIndex
        /\ NodeName(graph.links[i].source) = CountryPrefix \o UnknownCountry
        /\ graph.links[i].value >= 1

\* C7 as stated: with no focus, topCountries >= 1 and topDisciplines >= 1, a
\* record whose country is missing or blank always contributes to a link out
\* of the "Unknown Country" node.
C7_BlankCountryNeverDropped ==
    (NoFocus /\ topCountries >= 1 /\ topDisciplines >= 1) =>
        \A i \in 1..Len(data) : IsBlank(data[i].country) => UnknownCountryLinked

\* C7 as amended: a record whose country is missing or blank is sanitized to
\* country "Unknown Country" and ranked like any other country: with no
\* focus, it contributes to a link out of the "Unknown Country" node whenever
\* "Unknown Country" is among the retained top-N countries and one of its
\* disciplines is among the retained disciplines; when "Unknown Country" is
\* not among the retained countries no row of that country reaches the graph.
C7_BlankCountryRankedAsUnknown ==
    NoFocus =>
        \A i \in 1..Len(data) : IsBlank(data[i].country) =>
            LET c == cleaned(data)[i]
                top == topCountrySet(base(data, selectedCountry), topCountries)
                topDisc == topDiscSet(exploded(data, topCountries, selectedCountry),
                                      topDisciplines)
            IN  /\ c.country = UnknownCountry
                /\ (/\ UnknownCountry \in top
                    /\ \E k \in 1..Len(splitDisciplines(c.disciplineRaw)) :
                          splitDisciplines(c.disciplineRaw)[k] \in topDisc)
                      => UnknownCountryLinked
                /\ UnknownCountry \notin top =>
                      \A k \in 1..Len(FinalRows) : FinalRows[k].country # UnknownCountry

\* C7 witness: a record with a blank country, no focus, and a link out of
\* the "Unknown Country" node.
C7_Witness ==
    /\ NoFocus
    /\ \E i \in 1..Len(data) : IsBlank(data[i].country)
    /\ UnknownCountryLinked

\* Whether a pipeline run raises an error: the graph useMemo has no throw,
\* and the non-null assertion on idx.get is erased at compile time.
raises(d, tc, td, sel) == FALSE

\* C8: a run never returns a partially resolved graph: either every link has
\* both endpoints resolved to a node index, or the run raises an error.
C8_NoPartiallyResolvedGraph ==
    \/ raises(data, topCountries, topDisciplines, selectedCountry)
    \/ \A i \in 1..Len(graph.links) :
          graph.links[i].source # NoIndex /\ graph.links[i].target # NoIndex

\* C9: the exploder maps "['Freestyle', 'Relay']" to Freestyle and Relay,
\* "Judo" to Judo, and "Trampoline, Vault" to Trampoline and Vault.
C9_ExploderExamples ==
    \A i \in 1..Len(data) :
        LET labels == splitDisciplines(clean(data[i].disciplines, UnknownDiscipline))
        IN  /\ data[i].disciplines = FreestyleRelayField => labels = <<Freestyle, Relay>>
            /\ data[i].disciplines = Judo => labels = <<Judo>>
            /\ data[i].disciplines = TrampolineVaultField => labels = <<Trampoline, Vault>>

\* The links of the graph by the names of their end nodes.
LinksByName ==
    {<<NodeName(graph.links[i].source), NodeName(graph.links[i].target), graph.links[i].value>> :
        i \in 1..Len(graph.links)}

\* C10: for the three USA records with topCountries = 1, topDisciplines = 2
\* and no focus, the nodes are C: USA, D: Athletics, D: Swimming, G: Female,
\* G: Male in this order and the links are exactly the five of the example.
C10_WorkedExample ==
    (data = ExampleRows /\ topCountries = 1 /\ topDisciplines = 2 /\ NoFocus) =>
        /\ [i \in 1..Len(graph.nodes) |-> graph.nodes[i].name] =
              << CountryPrefix \o USA,
                 DisciplinePrefix \o Athletics, DisciplinePrefix \o Swimming,
                 GenderPrefix \o Female, GenderPrefix \o Male >>
        /\ Len(graph.links) = 5
        /\ LinksByName =
              { <<CountryPrefix \o USA, DisciplinePrefix \o Swimming, 2>>,
                <<CountryPrefix \o USA, DisciplinePrefix \o Athletics, 1>>,
                <<DisciplinePrefix \o Swimming, GenderPrefix \o Male, 1>>,
                <<DisciplinePrefix \o Swimming, GenderPrefix \o Female, 1>>,
                <<DisciplinePrefix \o Athletics, GenderPrefix \o Male, 1>> }

\* C10 witness: the example's props, and a graph of five nodes and five links.
C10_Witness ==
    /\ data = ExampleRows /\ topCountries = 1 /\ topDisciplines = 2 /\ NoFocus
    /\ Len(graph.nodes) = 5 /\ Len(graph.links) = 5

\* The tier a label belongs to by its prefix: 1 country, 2 discipline,
\* 3 gender, 0 none.
TierOf(name) ==
    IF startsWith(name, CountryPrefix) THEN 1
    ELSE IF startsWith(name, DisciplinePrefix) THEN 2
    ELSE IF startsWith(name, GenderPrefix) THEN 3
    ELSE 0

\* C11: the nodes are the country-tier labels, then the discipline-tier
\* labels, then the gender-tier labels, each tier in strictly ascending
\* lexicographic order, so no label occurs twice.
C11_NodesTieredAndSorted ==
    \A i, j \in 1..Len(graph.nodes) :
        /\ TierOf(graph.nodes[i].name) \in 1..3
        /\ i < j =>
              /\ TierOf(graph.nodes[i].name) <= TierOf(graph.nodes[j].name)
              /\ TierOf(graph.nodes[i].name) = TierOf(graph.nodes[j].name)
                    => StrLess(graph.nodes[i].name, graph.nodes[j].name)

\* C11 witness: the three tiers are present, one of them holds two labels,
\* and the node order is not the order the labels were first seen in.
C11_Witness ==
    /\ \A k \in 1..3 : \E i \in 1..Len(graph.nodes) : TierOf(graph.nodes[i].name) = k
    /\ \E i, j \in 1..Len(graph.nodes) :
          i < j /\ TierOf(graph.nodes[i].name) = TierOf(graph.nodes[j].name)
    /\ [i \in 1..Len(graph.nodes) |-> graph.nodes[i].name]
          # SelectSeq(nodeNames(linksNamed(FinalRows)), LAMBDA n : TierOf(n) # 0)

\* C12: aggregating the final rows taken twice gives the same links, in the
\* same order, between the same (source, target) pairs, each with exactly
\* twice the weight.
C12_DoublingDoublesWeights ==
    LET rows == FinalRows
        once == linksNamed(rows)
        twice == linksNamed(rows \o rows)
    IN  /\ Len(twice) = Len(once)
        /\ \A i \in 1..Len(once) :
              /\ twice[i].source = once[i].source
              /\ twice[i].target = once[i].target
              /\ twice[i].value = 2 * once[i].value

\* C12 witness: final rows are present and two of them already share a link,
\* which the doubling takes to weight 4.
C12_Witness ==
    /\ FinalRows # <<>>
    /\ \E i \in 1..Len(linksNamed(FinalRows)) : linksNamed(FinalRows)[i].value = 2
    /\ \E i \in 1..Len(linksNamed(FinalRows \o FinalRows)) :
          linksNamed(FinalRows \o FinalRows)[i].value = 4

\* Whether a raw record survives the country stage of the current props:
\* its sanitized country is the focus, or is a top-N country when no focus
\* is set.
Survives(r, top) ==
    IF Truthy(selectedCountry)
    THEN clean(r.country, UnknownCountry) = selectedCountry
    ELSE clean(r.country, UnknownCountry) \in top

Survivors ==
    LET top == topCountrySet(cleaned(data), topCountries)
    IN  SelectSeq(data, LAMBDA r : Survives(r, top))

\* The retained disciplines of the current props.
RetainedDisciplines ==
    topDiscSet(exploded(data, topCountries, selectedCountry), topDisciplines)

\* C13: the retained disciplines are ranked over the exploded records that
\* survived the country stage only (the records whose sanitized country is
\* exactly the focus, or the records of the top-N countries when no focus is
\* set); taking the other records out of the data does not change them.
C13_DisciplinesRankedOverSurvivors ==
    LET kept == Survivors
        rows == explodeAll(cleaned(kept))
        retained == RetainedDisciplines
    IN  /\ retained = topSet([i \in 1..Len(rows) |-> rows[i].discipline], topDisciplines)
        /\ retained = topDiscSet(exploded(kept, topCountries, selectedCountry), topDisciplines)
        /\ Truthy(selectedCountry) =>
              LET ex == exploded(data, topCountries, selectedCountry)
              IN  \A i \in 1..Len(ex) : ex[i].country = selectedCountry

\* C13 witness: a focus is set, a record of another country is in the data,
\* and ranking over all records would retain other disciplines.
C13_Witness ==
    LET all == explodeAll(cleaned(data))
    IN  /\ Truthy(selectedCountry)
        /\ Survivors # <<>> /\ Survivors # data
        /\ RetainedDisciplines # {}
        /\ RetainedDisciplines #
              topSet([i \in 1..Len(all) |-> all[i].discipline], topDisciplines)

\* C14: for every pair of labels the aggregator accumulates, splitting the
\* composite key on "|||" gives back exactly the source and the target.
C14_KeysRoundTrip ==
    \A i \in 1..Len(FinalRows) :
        LET c == countryLabel(FinalRows[i])
            p == disciplineLabel(FinalRows[i])
            g == genderLabel(FinalRows[i])
        IN  /\ splitString(linkKey(c, p), KeySeparator) = <<c, p>>
            /\ splitString(linkKey(p, g), KeySeparator) = <<p, g>>

\* The cleaned discipline string of a raw record, and its quoted items.
DisciplineString(r) == clean(r.disciplines, UnknownDiscipline)
HasQuotedItems(r) == quotedItems(DisciplineString(r)) # <<>>

KeysOf(keys) == {keys[i] : i \in 1..Len(keys)}
CountOf(keys, k) == Cardinality({i \in 1..Len(keys) : keys[i] = k})
FirstSeen(keys, k) == CHOOSE i \in 1..Len(keys) : keys[i] = k /\ \A j \in 1..(i - 1) : keys[j] # k

\* The first n keys by descending count, equal counts in first-seen order: a
\* key is among them when fewer than n keys come before it.
FirstN(keys, n) ==
    LET count == [k \in KeysOf(keys) |-> CountOf(keys, k)]
        first == [k \in KeysOf(keys) |-> FirstSeen(keys, k)]
    IN  {k \in KeysOf(keys) :
            Cardinality({j \in KeysOf(keys) :
                \/ count[j] > count[k]
                \/ count[j] = count[k] /\ first[j] < first[k]}) < n}

CountryKeys ==
    LET rows == base(data, selectedCountry)
    IN  [i \in 1..Len(rows) |-> rows[i].country]
DisciplineKeys ==
    LET rows == exploded(data, topCountries, selectedCountry)
    IN  [i \in 1..Len(rows) |-> rows[i].discipline]
BarKeys ==
    LET kept == SelectSeq(data, LAMBDA r : ~IsBlank(r.country))
    IN  [i \in 1..Len(kept) |-> trim(kept[i].country)]

\* C16: each top-N stage (countries, disciplines, the bars of the bar chart)
\* retains exactly the first N keys by descending count, equal counts in
\* first-seen order; the graph held for the props is the graph a new run
\* computes for them.
C16_TopNFirstSeenTieBreak ==
    /\ topCountrySet(base(data, selectedCountry), topCountries) = FirstN(CountryKeys, topCountries)
    /\ RetainedDisciplines = FirstN(DisciplineKeys, topDisciplines)
    /\ LET bars == barRows(data, barTopN)
           keys == BarKeys
       IN  /\ {bars[i].k : i \in 1..Len(bars)} = FirstN(keys, barTopN)
           /\ \A i, j \in 1..Len(bars) :
                 i < j => \/ bars[i].v > bars[j].v
                          \/ /\ bars[i].v = bars[j].v
                             /\ FirstSeen(keys, bars[i].k) < FirstSeen(keys, bars[j].k)
    /\ graph = graphOf(data, topCountries, topDisciplines, selectedCountry)

\* C16 witness: no focus, two countries tie for the first place, and
\* topCountries = 1 retains the one seen first.
C16_Witness ==
    /\ NoFocus /\ topCountries = 1 /\ Len(CountryKeys) >= 2
    /\ CountryKeys[1] # CountryKeys[2]
    /\ \A k \in KeysOf(CountryKeys) : CountOf(CountryKeys, k) = 1
    /\ topCountrySet(base(data, selectedCountry), topCountries) = {CountryKeys[1]}
    /\ graph.nodes # <<>>

\* The sum of the weights of a sequence of links.
RECURSIVE SumValues(_)
SumValues(links) ==
    IF links = <<>> THEN 0 ELSE Head(links).value + SumValues(Tail(links))

\* The tier of the node at a resolved index; 0 for an unresolved index.
TierAt(i) == IF i = NoIndex THEN 0 ELSE TierOf(NodeName(i))

\* C17: for each discipline node the weight of the links entering it equals
\* the weight of the links leaving it, and the total country-to-discipline
\* weight and the total discipline-to-gender weight both equal the number of
\* final rows.
C17_FlowConserved ==
    /\ \A p \in 0..(Len(graph.nodes) - 1) :
          TierAt(p) = 2 =>
             SumValues(SelectSeq(graph.links, LAMBDA l : l.target = p))
                = SumValues(SelectSeq(graph.links, LAMBDA l : l.source = p))
    /\ SumValues(SelectSeq(graph.links,
                           LAMBDA l : TierAt(l.source) = 1 /\ TierAt(l.target) = 2))
          = Len(FinalRows)
    /\ SumValues(SelectSeq(graph.links,
                           LAMBDA l : TierAt(l.source) = 2 /\ TierAt(l.target) = 3))
          = Len(FinalRows)

\* C18: with selectedCountry unset (null or the empty string) the Homework3
\* chart computes the nodes and links the Homework2 chart computes for the
\* same data, topCountries and topDisciplines.
C18_VariantsAgreeWithoutFocus ==
    selectedCountry \in {null, <<>>} =>
        graph = hw2_graphOf(data, topCountries, topDisciplines)

\* C18 witness: selectedCountry is the empty string, the top-N cut-off has
\* dropped a country, and both variants give the same graph with nodes.
C18_Witness ==
    /\ selectedCountry = <<>>
    /\ Len(hw2_filteredCountries(data, topCountries)) < Len(data)
    /\ graph.nodes # <<>>
    /\ graph = hw2_graphOf(data, topCountries, topDisciplines)

=============================================================================
